---- MODULE Spec2Model ----
(***************************************************************************)
(* A model of jigsaw_split.py: the boundary partitioner (bounds), the      *)
(* seam layout generator (build_edge_layout), the per-tile edge resolver   *)
(* (piece_edges), the mask renderer (draw_piece_mask) and the driver       *)
(* (split_image).                                                          *)
(*                                                                         *)
(* Python lists are modelled as functions on 0..n-1 (two-dimensional       *)
(* arrays) or as sequences read through At (0-based).  A mask is the set   *)
(* of canvas pixels <<x, y>> whose value is 255; every other pixel is 0.   *)
(***************************************************************************)
EXTENDS Integers, Sequences, FiniteSets

VARIABLES
    pc,                 \* position of the running call
    err,                \* the exception that ended the call, "" when none
    \* ---- split_image
    rows, cols,         \* the grid asked for (--rows, --cols)
    width, height,      \* image.size
    seeded,             \* TRUE: --seed given; FALSE: seed is None
    tape,               \* the values the seeded generator yields, in order
    run,                \* 1: first run, 2: a repeated run on the same arguments
    first,              \* the layout the first run returned
    x_bounds, y_bounds,
    dirCreated,         \* os.makedirs(output_dir) has happened
    horizontal, vertical,
    drawn,              \* number of rng.choice calls made in this run
    global_tab_radius,
    saved,              \* the pieces written so far, in order
    \* ---- a direct call of bounds(total, parts)
    total, parts, pts,
    \* ---- a direct call of draw_piece_mask(width, height, edges, tab_radius)
    piece_width, piece_height, edges, tab_radius,
    pad, mask, neck, tab_offset

splitVars == <<rows, cols, width, height, seeded, tape, run, first, x_bounds,
               y_bounds, dirCreated, horizontal, vertical, drawn,
               global_tab_radius, saved>>
boundsVars == <<total, parts, pts>>
maskVars == <<piece_width, piece_height, edges, tab_radius, pad, mask, neck,
              tab_offset>>
vars == <<pc, err, splitVars, boundsVars, maskVars>>

(***************************************************************************)
(* Bounds of the model.                                                    *)
(***************************************************************************)
MaxGrid == 2
SmallSide == 1
ExampleHeight == 40
ExampleWidth == 81
WideSide == 89
MaxTotal == 12
MaxParts == 5
MaxPiece == 8
MaxRadius == 8
TinySide == 4

\* max(8, ...) and ... // 5 of global_tab_radius
MinTabRadius == 8
RadiusDivisor == 5
\* the smallest cell side from which tab_radius is a fifth of the cell
FullCell == RadiusDivisor * MinTabRadius

GridValues == (-1)..MaxGrid
\* the image sizes (width, height) of the splits explored
ImageSizes == {<<SmallSide, ExampleHeight>>, <<ExampleWidth, ExampleHeight>>,
               <<WideSide, WideSide>>}
SeamSides == {TinySide, 2 * FullCell, WideSide}

(***************************************************************************)
(* Helpers for Python's built-ins.                                         *)
(***************************************************************************)
Max(a, b) == IF a >= b THEN a ELSE b
Min(a, b) == IF a <= b THEN a ELSE b
Abs(a) == IF a >= 0 THEN a ELSE -a

\* list[i] with Python's 0-based index
At(list, i) == list[i + 1]

\* range(a, b) as a sequence
Range(a, b) == [i \in 1..(b - a) |-> a + i - 1]

\* the iterations of "for r in rs: for c in cs:", in order
Pairs(rs, cs) ==
    [i \in 1..(Len(rs) * Len(cs)) |->
        <<rs[((i - 1) \div Len(cs)) + 1], cs[((i - 1) % Len(cs)) + 1]>>]

\* min() of a non-empty collection
MinOf(S) == CHOOSE m \in S : \A n \in S : m <= n

(***************************************************************************)
(* bounds(total, parts)                                                    *)
(***************************************************************************)
SegmentSizesTail(t, n) ==
    [i \in 1..n |-> (t \div n) + (IF (i - 1) >= n - (t % n) THEN 1 ELSE 0)]

\* sizes = [base + (1 if i < extra else 0) for i in range(parts)];
\* range(parts) is empty for parts < 0, so sizes is [] there
SegmentSizes(t, n) ==
    [i \in 1..n |-> (t \div n) + (IF (i - 1) < (t % n) THEN 1 ELSE 0)]

AppendPlain(p, s) == Append(p, s)

\* pts.append(pts[-1] + s)
AppendCumulative(p, s) == Append(p, p[Len(p)] + s)

RECURSIVE Cumulate(_, _)
Cumulate(sizes, p) ==
    IF sizes = <<>> THEN p
    ELSE Cumulate(Tail(sizes), AppendCumulative(p, Head(sizes)))

bounds(t, n) == Cumulate(SegmentSizes(t, n), <<0>>)

(***************************************************************************)
(* build_edge_layout(rows, cols, rng)                                      *)
(***************************************************************************)
ZeroHorizontal(rs, cs) == [r \in 0..rs |-> [c \in 0..(cs - 1) |-> 0]]
ZeroVertical(rs, cs) == [r \in 0..(rs - 1) |-> [c \in 0..cs |-> 0]]

AllRows(rs) == Range(0, rs)

\* for r in range(1, rows)
InteriorRows(rs) == Range(1, rs)

\* for c in range(1, cols)
InteriorCols(cs) == Range(1, cs)

HorizontalSeams(rs, cs) == Pairs(InteriorRows(rs), Range(0, cs))
VerticalSeams(rs, cs) == Pairs(Range(0, rs), InteriorCols(cs))

FreshChoice(isSeeded, t, k) == {-1, 1}

\* rng.choice([-1, 1]) as the k-th call on random.Random(seed): a seeded
\* generator repeats its sequence, an unseeded one draws afresh
RngChoice(isSeeded, t, k) ==
    IF isSeeded /\ k <= Len(t) THEN {t[k]} ELSE {-1, 1}

(***************************************************************************)
(* piece_edges(r, c, horizontal, vertical)                                 *)
(***************************************************************************)
piece_edges_unsigned(r, c, h, v) ==
    [top |-> h[r][c], right |-> v[r][c + 1],
     bottom |-> h[r + 1][c], left |-> -v[r][c]]

piece_edges(r, c, h, v) ==
    [top |-> -h[r][c], right |-> v[r][c + 1],
     bottom |-> h[r + 1][c], left |-> -v[r][c]]

(***************************************************************************)
(* draw_piece_mask(width, height, edges, tab_radius)                       *)
(***************************************************************************)
\* pad = tab_radius * 2 + 2
PadOf(radius) == radius * 2 + 2

\* w, h = width + pad * 2, height + pad * 2
CanvasSize(w, h, radius) == <<w + PadOf(radius) * 2, h + PadOf(radius) * 2>>

\* round(x) for x = n / d, n >= 0, away from a tie
RoundNearest(n, d) == (2 * n + d) \div (2 * d)

TabNeckRounded(radius) == Max(2, RoundNearest(45 * radius, 100))

\* neck = max(2, int(tab_radius * 0.45)): int() truncates
TabNeck(radius) == Max(2, (45 * radius) \div 100)

\* tab_offset = max(1, int(round(r * 0.6))); r * 0.6 is never a tie
TabOffset(radius) == Max(1, RoundNearest(6 * radius, 10))

\* Pillow's draw.rectangle(box, fill): the pixels of the box, corners
\* included, clipped to the canvas
DrawRectangle(size, x0, y0, x1, y1) ==
    (Max(0, Min(x0, x1))..Min(size[1] - 1, Max(x0, x1)))
        \X (Max(0, Min(y0, y1))..Min(size[2] - 1, Max(y0, y1)))

\* rect(): draw.rectangle([min(x0, x1), min(y0, y1), max(x0, x1), max(y0, y1)])
rect(size, x0, y0, x1, y1) ==
    DrawRectangle(size, Min(x0, x1), Min(y0, y1), Max(x0, x1), Max(y0, y1))

\* Pillow's rasterisation of a filled circle: a walk along a quarter of the
\* circle of radius r, from (r, 0) to (0, r), stepping to the one of the
\* neighbours (x, y+1), (x-1, y+1), (x-1, y) nearest the curve.  spans[y] is
\* the widest x reached on row y; the row is filled from -spans[y] to it.
RECURSIVE quarter_next(_, _, _, _)
quarter_next(r, cx, cy, spans) ==
    IF cx = 0 /\ cy = r THEN spans
    ELSE LET delta(x, y) == Abs(x * x + y * y - r * r)
             up == <<cx, cy + 1>>
             diag == <<cx - 1, cy + 1>>
             left == <<cx - 1, cy>>
             n1 == IF cx > 0 /\ delta(up[1], up[2]) > delta(diag[1], diag[2])
                   THEN diag ELSE up
             n2 == IF cx > 0 /\ delta(n1[1], n1[2]) > delta(left[1], left[2])
                   THEN left ELSE n1
         IN  quarter_next(r, n2[1], n2[2],
                          [spans EXCEPT ![n2[2]] = Max(@, n2[1])])

HalfWidths(r) == quarter_next(r, r, 0, [y \in 0..r |-> IF y = 0 THEN r ELSE -1])

\* ellipse(): draw.ellipse([cx - r, cy - r, cx + r, cy + r]), clipped
ellipse(size, cx, cy, r) ==
    LET hw == HalfWidths(r)
    IN  UNION { (Max(0, cx - hw[Abs(dy)])..Min(size[1] - 1, cx + hw[Abs(dy)]))
                    \X {cy + dy} :
                dy \in {d \in (-r)..r : cy + d >= 0 /\ cy + d <= size[2] - 1} }

\* a fill of 255 sets the shape's pixels, a fill of 0 clears them
Paint(m, shape, fill) == IF fill = 255 THEN m \cup shape ELSE m \ shape

BaseMaskOutline(w, h, radius) ==
    LET p == PadOf(radius)
        box == DrawRectangle(CanvasSize(w, h, radius), p, p, p + w - 1, p + h - 1)
    IN  {q \in box : q[1] \in {p, p + w - 1} \/ q[2] \in {p, p + h - 1}}

\* the base silhouette: draw.rectangle([pad, pad, pad + width - 1, pad + height - 1])
BaseMask(w, h, radius) ==
    LET p == PadOf(radius)
    IN  Paint({}, DrawRectangle(CanvasSize(w, h, radius),
                                p, p, p + w - 1, p + h - 1), 255)

HoleCentreFromInside(boundary, inside, sign_in, off) == inside + sign_in * off

\* the centre of a hole's disk along the tab's axis:
\* boundary_y + sign_in * tab_offset (boundary_x for left and right)
HoleCentre(boundary, inside, sign_in, off) == boundary + sign_in * off

add_tab(m, side, orientation, w, h, radius, nk) ==
    IF orientation = 0 THEN m
    ELSE
    LET p == PadOf(radius)
        size == CanvasSize(w, h, radius)
        off == TabOffset(radius)
    IN  IF side \in {"top", "bottom"}
        THEN LET cx == p + (w \div 2)
                 boundary_y == IF side = "top" THEN p ELSE p + h
                 inside_y == IF side = "top" THEN boundary_y ELSE boundary_y - 1
                 sign_out == IF side = "top" THEN -1 ELSE 1
                 sign_in == -sign_out
             IN  IF orientation = 1
                 THEN Paint(Paint(m, rect(size, cx - nk, inside_y, cx + nk,
                                          boundary_y + sign_out * off), 255),
                            ellipse(size, cx, boundary_y + sign_out * off, radius),
                            255)
                 ELSE Paint(Paint(m, rect(size, cx - nk, inside_y, cx + nk,
                                          inside_y + sign_in * off), 0),
                            ellipse(size, cx, HoleCentre(boundary_y, inside_y, sign_in, off),
                                    radius),
                            0)
        ELSE LET cy == p + (h \div 2)
                 boundary_x == IF side = "left" THEN p ELSE p + w
                 inside_x == IF side = "left" THEN boundary_x ELSE boundary_x - 1
                 sign_out == IF side = "left" THEN -1 ELSE 1
                 sign_in == -sign_out
             IN  IF orientation = 1
                 THEN Paint(Paint(m, rect(size, inside_x, cy - nk,
                                          boundary_x + sign_out * off, cy + nk), 255),
                            ellipse(size, boundary_x + sign_out * off, cy, radius),
                            255)
                 ELSE Paint(Paint(m, rect(size, inside_x, cy - nk,
                                          inside_x + sign_in * off, cy + nk), 0),
                            ellipse(size, HoleCentre(boundary_x, inside_x, sign_in, off),
                                    cy, radius),
                            0)

\* the mask draw_piece_mask returns: base rectangle, then the four tabs
draw_piece_mask(w, h, e, radius) ==
    LET nk == TabNeck(radius)
    IN  add_tab(add_tab(add_tab(add_tab(BaseMask(w, h, radius),
            "top", e.top, w, h, radius, nk),
            "right", e.right, w, h, radius, nk),
            "bottom", e.bottom, w, h, radius, nk),
            "left", e.left, w, h, radius, nk)

(***************************************************************************)
(* split_image(image_path, rows, cols, output_dir, seed)                   *)
(***************************************************************************)
NoLayout == [horizontal |-> <<>>, vertical |-> <<>>]

CellWidths(xb, cs) == {At(xb, i + 1) - At(xb, i) : i \in 0..(cs - 1)}
CellHeights(yb, rs) == {At(yb, i + 1) - At(yb, i) : i \in 0..(rs - 1)}

\* global_tab_radius = max(8, min(cell_w_min, cell_h_min) // 5)
GlobalTabRadius(cell_w_min, cell_h_min) ==
    Max(MinTabRadius, Min(cell_w_min, cell_h_min) \div RadiusDivisor)

OwnTabRadius(piece_w, piece_h, radius) == GlobalTabRadius(piece_w, piece_h)

\* the tab_radius argument of draw_piece_mask(piece_w, piece_h, edges,
\* global_tab_radius)
PieceTabRadius(piece_w, piece_h, radius) == radius

\* for r in range(rows): for c in range(cols)
TileOrder(rs, cs) == Pairs(Range(0, rs), Range(0, cs))

\* what one iteration of the tile loop computes and saves; the alpha channel
\* of the saved piece is draw_piece_mask of the recorded arguments
Piece(r, c, xb, yb, h, v, radius) ==
    LET x0 == At(xb, c)
        x1 == At(xb, c + 1)
        y0 == At(yb, r)
        y1 == At(yb, r + 1)
        tr == PieceTabRadius(x1 - x0, y1 - y0, radius)
    IN  [r |-> r, c |-> c, x0 |-> x0, y0 |-> y0,
         piece_w |-> x1 - x0, piece_h |-> y1 - y0,
         edges |-> piece_edges(r, c, h, v),
         tab_radius |-> tr, pad |-> PadOf(tr)]

IdleBounds == total = 0 /\ parts = 0 /\ pts = <<>>
IdleMask ==
    /\ piece_width = 0 /\ piece_height = 0 /\ tab_radius = 0
    /\ edges = [top |-> 0, right |-> 0, bottom |-> 0, left |-> 0]
    /\ pad = 0 /\ mask = {} /\ neck = 0 /\ tab_offset = 0
IdleSplit ==
    /\ rows = 0 /\ cols = 0 /\ width = 0 /\ height = 0
    /\ seeded = FALSE /\ tape = <<>> /\ run = 1 /\ first = NoLayout
    /\ x_bounds = <<>> /\ y_bounds = <<>> /\ dirCreated = FALSE
    /\ horizontal = <<>> /\ vertical = <<>> /\ drawn = 0
    /\ global_tab_radius = 0 /\ saved = <<>>

\* the state once rng = random.Random(seed) is made and the image is open
SplitStart(grid, sizes) ==
    /\ pc = "x_bounds" /\ err = ""
    /\ rows \in grid /\ cols \in grid
    /\ \E size \in sizes : width = size[1] /\ height = size[2]
    /\ seeded \in BOOLEAN /\ tape = <<>> /\ run = 1 /\ first = NoLayout
    /\ x_bounds = <<>> /\ y_bounds = <<>> /\ dirCreated = FALSE
    /\ horizontal = <<>> /\ vertical = <<>> /\ drawn = 0
    /\ global_tab_radius = 0 /\ saved = <<>>
    /\ IdleBounds /\ IdleMask

Raise(e) == pc' = "error" /\ err' = e

\* x_bounds = bounds(width, cols); total // 0 raises ZeroDivisionError
ComputeXBounds ==
    /\ pc = "x_bounds"
    /\ IF cols = 0
       THEN Raise("ZeroDivisionError") /\ UNCHANGED x_bounds
       ELSE pc' = "y_bounds" /\ x_bounds' = bounds(width, cols) /\ UNCHANGED err
    /\ UNCHANGED <<rows, cols, width, height, seeded, tape, run, first, y_bounds,
                   dirCreated, horizontal, vertical, drawn, global_tab_radius,
                   saved, boundsVars, maskVars>>

\* y_bounds = bounds(height, rows)
ComputeYBounds ==
    /\ pc = "y_bounds"
    /\ IF rows = 0
       THEN Raise("ZeroDivisionError") /\ UNCHANGED y_bounds
       ELSE pc' = "makedirs" /\ y_bounds' = bounds(height, rows) /\ UNCHANGED err
    /\ UNCHANGED <<rows, cols, width, height, seeded, tape, run, first, x_bounds,
                   dirCreated, horizontal, vertical, drawn, global_tab_radius,
                   saved, boundsVars, maskVars>>

\* os.makedirs(output_dir, exist_ok=True)
MakeDirs ==
    /\ pc = "makedirs"
    /\ pc' = "layout"
    /\ dirCreated' = TRUE
    /\ UNCHANGED <<err, rows, cols, width, height, seeded, tape, run, first,
                   x_bounds, y_bounds, horizontal, vertical, drawn,
                   global_tab_radius, saved, boundsVars, maskVars>>

\* build_edge_layout: the two zero-filled arrays
AllocateLayout ==
    /\ pc = "layout"
    /\ pc' = "seams"
    /\ horizontal' = ZeroHorizontal(rows, cols)
    /\ vertical' = ZeroVertical(rows, cols)
    /\ drawn' = 0
    /\ UNCHANGED <<err, rows, cols, width, height, seeded, tape, run, first,
                   x_bounds, y_bounds, dirCreated, global_tab_radius, saved,
                   boundsVars, maskVars>>

Record(t, v, k) == IF seeded /\ k > Len(t) THEN Append(t, v) ELSE t

\* horizontal[r][c] = rng.choice([-1, 1]), the next internal horizontal seam
DrawHorizontal ==
    /\ pc = "seams"
    /\ drawn < Len(HorizontalSeams(rows, cols))
    /\ LET seam == HorizontalSeams(rows, cols)[drawn + 1]
       IN  \E value \in RngChoice(seeded, tape, drawn + 1) :
               /\ horizontal' = [horizontal EXCEPT ![seam[1]][seam[2]] = value]
               /\ tape' = Record(tape, value, drawn + 1)
    /\ drawn' = drawn + 1
    /\ UNCHANGED <<pc, err, rows, cols, width, height, seeded, run, first,
                   x_bounds, y_bounds, dirCreated, vertical, global_tab_radius,
                   saved, boundsVars, maskVars>>

\* vertical[r][c] = rng.choice([-1, 1]), the next internal vertical seam
DrawVertical ==
    /\ pc = "seams"
    /\ drawn >= Len(HorizontalSeams(rows, cols))
    /\ drawn < Len(HorizontalSeams(rows, cols)) + Len(VerticalSeams(rows, cols))
    /\ LET seam == VerticalSeams(rows, cols)[drawn - Len(HorizontalSeams(rows, cols)) + 1]
       IN  \E value \in RngChoice(seeded, tape, drawn + 1) :
               /\ vertical' = [vertical EXCEPT ![seam[1]][seam[2]] = value]
               /\ tape' = Record(tape, value, drawn + 1)
    /\ drawn' = drawn + 1
    /\ UNCHANGED <<pc, err, rows, cols, width, height, seeded, run, first,
                   x_bounds, y_bounds, dirCreated, horizontal,
                   global_tab_radius, saved, boundsVars, maskVars>>

\* return horizontal, vertical
ReturnLayout ==
    /\ pc = "seams"
    /\ drawn = Len(HorizontalSeams(rows, cols)) + Len(VerticalSeams(rows, cols))
    /\ pc' = "radius"
    /\ UNCHANGED <<err, splitVars, boundsVars, maskVars>>

\* cell_w_min, cell_h_min, global_tab_radius; min() of an empty sequence
\* raises ValueError
ComputeRadius ==
    /\ pc = "radius"
    /\ IF CellWidths(x_bounds, cols) = {} \/ CellHeights(y_bounds, rows) = {}
       THEN Raise("ValueError") /\ UNCHANGED global_tab_radius
       ELSE /\ pc' = "tiles"
            /\ global_tab_radius' =
                 GlobalTabRadius(MinOf(CellWidths(x_bounds, cols)),
                                 MinOf(CellHeights(y_bounds, rows)))
            /\ UNCHANGED err
    /\ UNCHANGED <<rows, cols, width, height, seeded, tape, run, first, x_bounds,
                   y_bounds, dirCreated, horizontal, vertical, drawn, saved,
                   boundsVars, maskVars>>

NextTile == TileOrder(rows, cols)[Len(saved) + 1]

\* one iteration of the tile loop, down to piece.save(filename)
SavePiece ==
    /\ pc = "tiles"
    /\ Len(saved) < Len(TileOrder(rows, cols))
    /\ saved' = Append(saved, Piece(NextTile[1], NextTile[2], x_bounds, y_bounds,
                                    horizontal, vertical, global_tab_radius))
    /\ UNCHANGED <<pc, err, rows, cols, width, height, seeded, tape, run, first,
                   x_bounds, y_bounds, dirCreated, horizontal, vertical, drawn,
                   global_tab_radius, boundsVars, maskVars>>

\* a piece of no width or no height: the base rectangle's box has x1 < x0 or
\* y1 < y0, which a Pillow that checks its boxes refuses with ValueError
\* (one that does not draws the box with its corners swapped: SavePiece)
RejectEmptyPiece ==
    /\ pc = "tiles"
    /\ Len(saved) < Len(TileOrder(rows, cols))
    /\ LET p == Piece(NextTile[1], NextTile[2], x_bounds, y_bounds,
                      horizontal, vertical, global_tab_radius)
       IN  p.piece_w = 0 \/ p.piece_h = 0
    /\ Raise("ValueError")
    /\ UNCHANGED <<splitVars, boundsVars, maskVars>>

\* the tile loop has run out
Finish ==
    /\ pc = "tiles"
    /\ Len(saved) = Len(TileOrder(rows, cols))
    /\ pc' = "done"
    /\ UNCHANGED <<err, splitVars, boundsVars, maskVars>>

\* the program is run again with the same arguments and the same --seed; the
\* output directory of the first run is still there
Rerun ==
    /\ pc = "done"
    /\ run = 1
    /\ seeded
    /\ run' = 2
    /\ first' = [horizontal |-> horizontal, vertical |-> vertical]
    /\ pc' = "x_bounds"
    /\ x_bounds' = <<>> /\ y_bounds' = <<>>
    /\ horizontal' = <<>> /\ vertical' = <<>> /\ drawn' = 0
    /\ global_tab_radius' = 0 /\ saved' = <<>>
    /\ UNCHANGED <<err, rows, cols, width, height, seeded, tape, dirCreated,
                   boundsVars, maskVars>>

SplitValid ==
    \/ ComputeXBounds \/ ComputeYBounds \/ MakeDirs \/ AllocateLayout
    \/ DrawHorizontal \/ DrawVertical \/ ReturnLayout \/ ComputeRadius
    \/ SavePiece \/ Finish

Init == SplitStart(GridValues, ImageSizes)
Next == SplitValid \/ RejectEmptyPiece \/ Rerun
Spec == Init /\ [][Next]_vars

\* splits of valid grids over images in which no cell is empty
SeamStart == SplitStart(1..MaxGrid, SeamSides \X SeamSides)
SpecSeam == SeamStart /\ [][SplitValid]_vars

(***************************************************************************)
(* A direct call of bounds(total, parts) on arguments of its contract.     *)
(***************************************************************************)
BoundsStart ==
    /\ pc = "bounds_call" /\ err = ""
    /\ total \in 0..MaxTotal /\ parts \in 1..MaxParts /\ pts = <<>>
    /\ IdleSplit /\ IdleMask

CallBounds ==
    /\ pc = "bounds_call"
    /\ pc' = "bounds_done"
    /\ pts' = bounds(total, parts)
    /\ UNCHANGED <<err, total, parts, splitVars, maskVars>>

NextBounds == CallBounds
SpecBounds == BoundsStart /\ [][NextBounds]_vars

(***************************************************************************)
(* A direct call of draw_piece_mask, one drawing operation at a time.      *)
(***************************************************************************)
Orientations == {-1, 0, 1}
Sides == <<"top", "right", "bottom", "left">>

MaskStart(maxPiece, maxRadius) ==
    /\ pc = "mask_new" /\ err = ""
    /\ piece_width \in 1..maxPiece /\ piece_height \in 1..maxPiece
    /\ edges \in [top : Orientations, right : Orientations,
                  bottom : Orientations, left : Orientations]
    /\ tab_radius \in 1..maxRadius
    /\ pad = 0 /\ mask = {} /\ neck = 0 /\ tab_offset = 0
    /\ IdleSplit /\ IdleBounds

\* pad, the canvas, the base rectangle and neck
NewMask ==
    /\ pc = "mask_new"
    /\ pc' = "tab_top"
    /\ pad' = PadOf(tab_radius)
    /\ mask' = BaseMask(piece_width, piece_height, tab_radius)
    /\ neck' = TabNeck(tab_radius)
    /\ UNCHANGED <<err, piece_width, piece_height, edges, tab_radius,
                   tab_offset, splitVars, boundsVars>>

\* add_tab(side, edges.side); tab_offset is only computed past the early
\* return for a flat edge
AddTab(side, then) ==
    /\ pc = "tab_" \o side
    /\ pc' = then
    /\ mask' = add_tab(mask, side, edges[side], piece_width, piece_height,
                       tab_radius, neck)
    /\ tab_offset' = IF edges[side] = 0 THEN tab_offset ELSE TabOffset(tab_radius)
    /\ UNCHANGED <<err, piece_width, piece_height, edges, tab_radius, pad,
                   neck, splitVars, boundsVars>>

AddTabTop == AddTab("top", "tab_right")
AddTabRight == AddTab("right", "tab_bottom")
AddTabBottom == AddTab("bottom", "tab_left")
AddTabLeft == AddTab("left", "mask_done")

NextMask == NewMask \/ AddTabTop \/ AddTabRight \/ AddTabBottom \/ AddTabLeft
SpecMask == MaskStart(MaxPiece, MaxRadius) /\ [][NextMask]_vars

(***************************************************************************)
(* Properties.                                                             *)
(***************************************************************************)
ValidGrid == rows >= 1 /\ cols >= 1

\* build_edge_layout has returned its layout to split_image
LayoutReturned == pc \in {"radius", "tiles", "done"}

EdgesOf(r, c) == piece_edges(r, c, horizontal, vertical)

\* C1: in every layout build_edge_layout returns for a valid grid, the two
\* tiles on either side of an interior seam see opposite orientations:
\* bottom of (r, c) is minus top of (r+1, c), right of (r, c) is minus left of
\* (r, c+1).
C1_SeamNegation ==
    (LayoutReturned /\ ValidGrid) =>
        \A r \in 0..(rows - 1), c \in 0..(cols - 1) :
            /\ r <= rows - 2 => EdgesOf(r, c).bottom = -EdgesOf(r + 1, c).top
            /\ c <= cols - 2 => EdgesOf(r, c).right = -EdgesOf(r, c + 1).left

C1_Witness ==
    /\ LayoutReturned /\ rows = 2 /\ cols = 2
    /\ EdgesOf(0, 0).bottom = 1 /\ EdgesOf(1, 0).top = -1
    /\ EdgesOf(0, 0).right = -1 /\ EdgesOf(0, 1).left = 1

\* C3: in every returned layout of a valid grid an edge of a tile is flat (0)
\* exactly when it lies on the outer rim of the grid, and is -1 or +1
\* otherwise.
C3_FlatIffRim ==
    (LayoutReturned /\ ValidGrid) =>
        \A r \in 0..(rows - 1), c \in 0..(cols - 1) :
            LET e == EdgesOf(r, c)
            IN  /\ {e.top, e.right, e.bottom, e.left} \subseteq {-1, 0, 1}
                /\ e.top = 0 <=> r = 0
                /\ e.bottom = 0 <=> r = rows - 1
                /\ e.left = 0 <=> c = 0
                /\ e.right = 0 <=> c = cols - 1

C3_Witness ==
    /\ LayoutReturned /\ rows = 2 /\ cols = 2
    /\ EdgesOf(1, 1).top = 1 /\ EdgesOf(1, 1).left = -1
    /\ EdgesOf(1, 1).bottom = 0 /\ EdgesOf(1, 1).right = 0

\* the masks of the saved pieces, in order
RECURSIVE MasksOf(_)
MasksOf(pieces) ==
    IF pieces = <<>> THEN <<>>
    ELSE <<draw_piece_mask(Head(pieces).piece_w, Head(pieces).piece_h,
                           Head(pieces).edges, Head(pieces).tab_radius)>>
         \o MasksOf(Tail(pieces))

\* the pieces whose mask, placed with its pixel (pad, pad) on the piece's
\* (x0, y0), is opaque at image pixel (x, y)
Owners(masks, x, y) ==
    {i \in 1..Len(saved) :
        <<x - saved[i].x0 + saved[i].pad, y - saved[i].y0 + saved[i].pad>>
            \in masks[i]}

MasksTileImage ==
    LET masks == MasksOf(saved)
    IN  \A x \in 0..(width - 1), y \in 0..(height - 1) :
            Cardinality(Owners(masks, x, y)) = 1

\* C2 as claimed: once a split of a valid grid is done, every image pixel is
\* opaque in the mask of exactly one piece.
C2_Original == (pc = "done" /\ ValidGrid) => MasksTileImage

EveryCellFull ==
    /\ \A w \in CellWidths(x_bounds, cols) : w >= FullCell
    /\ \A h \in CellHeights(y_bounds, rows) : h >= FullCell

\* C2, amended: once a split of a valid grid is done in which every cell is
\* at least 40 pixels wide and high (so that tab_radius is a fifth of the
\* smallest cell side), every image pixel is opaque in the mask of exactly
\* one piece.
C2_SeamsExact == (pc = "done" /\ ValidGrid /\ EveryCellFull) => MasksTileImage

\* a 2 x 2 split with full cells in which the right-hand bump of piece (0, 0)
\* owns the pixel at its centre, which lies in the rectangle of piece (0, 1)
C2_Witness ==
    /\ pc = "done" /\ rows = 2 /\ cols = 2 /\ EveryCellFull
    /\ saved[1].edges.right = 1 /\ saved[1].edges.bottom = -1
    /\ LET masks == MasksOf(saved)
           x == At(x_bounds, 1) + TabOffset(saved[1].tab_radius)
           y == saved[1].piece_h \div 2
       IN  /\ x >= saved[2].x0
           /\ Owners(masks, x, y) = {1}

\* C4: for total >= 0 and parts >= 1, bounds(total, parts) has parts + 1
\* entries, starts at 0, ends at total, never decreases, gives segment i the
\* length total div parts + 1 when i < total mod parts and total div parts
\* otherwise, so that two segment lengths differ by at most 1.
C4_BoundsShape ==
    pc = "bounds_done" =>
        /\ Len(pts) = parts + 1
        /\ At(pts, 0) = 0
        /\ At(pts, parts) = total
        /\ \A i \in 0..(parts - 1) :
            /\ At(pts, i) <= At(pts, i + 1)
            /\ At(pts, i + 1) - At(pts, i) =
                 (total \div parts) + (IF i < total % parts THEN 1 ELSE 0)
        /\ \A i, j \in 0..(parts - 1) :
            (At(pts, i + 1) - At(pts, i)) - (At(pts, j + 1) - At(pts, j)) <= 1

C4_Witness ==
    pc = "bounds_done" /\ total = 11 /\ parts = 3 /\ pts = <<0, 4, 8, 11>>

StrictlyIncreasing(p) == \A i \in 1..(Len(p) - 1) : p[i] < p[i + 1]

\* C5 as claimed: for positive total and parts the list bounds returns is
\* strictly increasing.
C5_Original ==
    (pc = "bounds_done" /\ total >= 1) => StrictlyIncreasing(pts)

\* C5, amended: for positive total and parts the list bounds returns is
\* strictly increasing exactly when total >= parts; with total < parts it has
\* segments of length 0.
C5_StrictIffEnough ==
    (pc = "bounds_done" /\ total >= 1) =>
        (StrictlyIncreasing(pts) <=> total >= parts)

C5_Witness ==
    pc = "bounds_done" /\ total = 7 /\ parts = 3 /\ pts = <<0, 3, 5, 7>>

\* C6: a repeated run with the same rows, cols and seed returns the layout
\* of the first run; the draws fill the interior horizontal seams row by
\* row, then the interior vertical seams row by row; and the layout is not
\* changed once it is returned.
C6_Deterministic ==
    /\ []((seeded /\ LayoutReturned /\ ValidGrid) =>
            /\ run = 2 => (horizontal = first.horizontal /\ vertical = first.vertical)
            /\ \A r \in 1..(rows - 1), c \in 0..(cols - 1) :
                 horizontal[r][c] = tape[(r - 1) * cols + c + 1]
            /\ \A r \in 0..(rows - 1), c \in 1..(cols - 1) :
                 vertical[r][c] = tape[(rows - 1) * cols + r * (cols - 1) + c])
    /\ [][(LayoutReturned /\ LayoutReturned') =>
            (horizontal' = horizontal /\ vertical' = vertical)]_vars

C6_Witness ==
    /\ seeded /\ run = 2 /\ pc = "done" /\ rows = 2 /\ cols = 2
    /\ horizontal[1][0] = 1 /\ horizontal[1][1] = -1
    /\ vertical[0][1] = -1 /\ vertical[1][1] = 1
    /\ tape = <<1, -1, -1, 1>>

\* the centre of the inset rectangle
Centre == <<pad + (piece_width \div 2), pad + (piece_height \div 2)>>

\* C7 as claimed: whatever the piece size, tab_radius and edges, the pixel
\* (pad + width div 2, pad + height div 2) of the finished mask is opaque.
C7_Original == pc = "mask_done" => Centre \in mask

\* no hole reaches the centre of the piece
CentreClear ==
    /\ piece_width \div 2 > tab_radius + TabOffset(tab_radius)
    /\ piece_height \div 2 > tab_radius + TabOffset(tab_radius)

\* C7, amended: the centre pixel of the finished mask is opaque, for every
\* combination of edges, when width div 2 and height div 2 both exceed
\* tab_radius + offset.
C7_CentreOpaque == (pc = "mask_done" /\ CentreClear) => Centre \in mask

C7_Witness ==
    /\ pc = "mask_done" /\ CentreClear /\ tab_radius = 2
    /\ edges = [top |-> -1, right |-> -1, bottom |-> -1, left |-> -1]
    /\ Centre \in mask
    /\ <<pad + (piece_width \div 2), pad>> \notin mask

\* C8: every piece saved by one run was rendered with the same tab_radius,
\* max(8, min(smallest cell width, smallest cell height) div 5), and with
\* pad = 2 * tab_radius + 2, whatever its own size.
C8_SharedRadius ==
    \A i \in 1..Len(saved) :
        LET shared == Max(8, Min(MinOf(CellWidths(x_bounds, cols)),
                                 MinOf(CellHeights(y_bounds, rows))) \div 5)
        IN  /\ saved[i].tab_radius = shared
            /\ saved[i].pad = 2 * shared + 2

\* the cells of 41 x 40 and 40 x 40 pixels, both rendered with radius 8
C8_Witness ==
    /\ pc = "done" /\ Len(saved) = 2
    /\ saved[1].piece_w = 41 /\ saved[1].piece_h = 40
    /\ saved[2].piece_w = 40 /\ saved[2].piece_h = 40
    /\ saved[1].tab_radius = 8 /\ saved[2].tab_radius = 8
    /\ saved[1].pad = 18 /\ saved[2].pad = 18

\* C9: a grid with rows <= 0 or cols <= 0 is refused before any geometry is
\* computed and before any output: no bounds, no layout, no output
\* directory, no piece, and the run can only end in an invalid-grid error.
C9_InvalidGridRefused ==
    (rows <= 0 \/ cols <= 0) =>
        /\ x_bounds = <<>> /\ y_bounds = <<>>
        /\ horizontal = <<>> /\ vertical = <<>>
        /\ ~dirCreated
        /\ saved = <<>>
        /\ pc \in {"x_bounds", "error"}
        /\ pc = "error" => err = "InvalidGrid"

\* C10 as claimed: neck is max(2, round(0.45 * tab_radius)) and the tab
\* offset is max(1, round(0.6 * tab_radius)), rounding to the nearest
\* integer.
C10_Original ==
    /\ pc # "mask_new" => neck = Max(2, RoundNearest(45 * tab_radius, 100))
    /\ tab_offset # 0 => tab_offset = Max(1, RoundNearest(6 * tab_radius, 10))

\* C10, amended: neck is max(2, 0.45 * tab_radius rounded down) and the tab
\* offset is max(1, 0.6 * tab_radius rounded to the nearest integer).
C10_NeckTruncated ==
    /\ pc # "mask_new" =>
        /\ neck >= 2
        /\ neck > 2 => (100 * neck <= 45 * tab_radius
                        /\ 45 * tab_radius < 100 * (neck + 1))
        /\ neck = 2 => 45 * tab_radius < 300
    /\ tab_offset # 0 =>
        /\ tab_offset >= 1
        /\ tab_offset > 1 => Abs(10 * tab_offset - 6 * tab_radius) < 5
        /\ tab_offset = 1 => 6 * tab_radius < 15

C10_Witness ==
    pc = "mask_done" /\ tab_radius = 8 /\ neck = 3 /\ tab_offset = 5

====
